---- MODULE Spec2Model ----
(***************************************************************************)
(* Model of the two TSP lambda handlers of aws-serverless-comparison:      *)
(*   classical-serverless/lambda-src/classical-optimizer.py                *)
(*   quantum-serverless/lambda-src/quantum-optimizer.py                    *)
(* A request is drawn in Init; the classical handler is one action, the    *)
(* quantum handler is a sequence of steps (one per sampled trial of        *)
(* quantum_inspired_tsp, because each trial draws a random start city).    *)
(*                                                                         *)
(* Numbers.  The code computes distances as Python floats (IEEE binary64,  *)
(* 53-bit significand).  The model keeps the same arithmetic with a        *)
(* Precision-bit significand: a float is the integer k standing for        *)
(* k / 2^(Precision-1); every nonzero distance between integer points is   *)
(* >= 1, so every value that occurs is such an integer.  Square root and   *)
(* addition round to nearest (ties to even) as IEEE does, so addition is   *)
(* commutative but not associative, as in the code.                        *)
(***************************************************************************)
EXTENDS Integers, Sequences, FiniteSets, TLC

----------------------------------------------------------------------------
(* Bounds of the model *)

Precision == 6      \* bits of significand kept by the float model
MaxN == 3           \* generated city lists have 0..MaxN cities of the unit square
MaxSquare == 100    \* largest squared distance between two cities of a request
MaxInvocations == 2 \* requests one process (warm container) handles in ProcessSpec
MaxVariate == 2     \* the random generator yields raw values 0 .. MaxVariate

----------------------------------------------------------------------------
(* Float arithmetic *)

RECURSIVE Pow2(_)
Pow2(e) == IF e = 0 THEN 1 ELSE 2 * Pow2(e - 1)

\* spacing of the representable values around k: 1 below 2^Precision,
\* doubling with every further binary order of magnitude
RECURSIVE Ulp(_, _)
Ulp(k, q) == IF k < q * Pow2(Precision) THEN q ELSE Ulp(k, 2 * q)

\* round the exact value k to the nearest representable one, ties to even
RoundFloat(k) ==
    LET q == Ulp(k, 1)
        r == k % q
        lo == k - r
    IN  IF 2 * r > q \/ (2 * r = q /\ (lo \div q) % 2 = 1) THEN lo + q ELSE lo

\* float addition
FAdd(a, b) == RoundFloat(a + b)

\* binary exponent e of sqrt(d2): 4^e <= d2 < 4^(e+1)
RECURSIVE SqrtExp(_, _)
SqrtExp(d2, e) == IF d2 < Pow2(2 * (e + 1)) THEN e ELSE SqrtExp(d2, e + 1)

\* the m in lo..hi nearest to sqrt(X): (2m-1)^2 < 4X < (2m+1)^2 (the square
\* root of an integer is never half way between two integers)
RECURSIVE NearestRoot(_, _, _)
NearestRoot(X, lo, hi) ==
    IF lo >= hi THEN lo
    ELSE LET mid == (lo + hi) \div 2
         IN  IF 4 * X < (2 * mid + 1) * (2 * mid + 1)
             THEN NearestRoot(X, lo, mid)
             ELSE NearestRoot(X, mid + 1, hi)

\* x ** 0.5 for an integer x >= 0, correctly rounded: the significand of
\* sqrt(d2) lies in 2^(Precision-1) .. 2^Precision
FSqrt(d2) ==
    IF d2 = 0 THEN 0
    ELSE LET e == SqrtExp(d2, 0)
         IN  NearestRoot(d2 * Pow2(2 * (Precision - 1 - e)),
                         Pow2(Precision - 1), Pow2(Precision)) * Pow2(e)

\* float('inf') and the comparison a < b with it
Infinity == -1
FLess(a, b) == IF a = Infinity THEN FALSE ELSE IF b = Infinity THEN TRUE ELSE a < b

----------------------------------------------------------------------------
(* Solvers *)

\* a city list is a sequence of <<x, y>>; city index i of the code is
\* cities[i + 1] here, and routes hold the code's 0-based indices
City(cities, i) == cities[i + 1]

\* the square roots of 0 .. MaxSquare, computed once
SqrtTable == [d2 \in 0 .. MaxSquare |-> FSqrt(d2)]

calculate_distance(city1, city2) ==
    SqrtTable[(city1[1] - city2[1]) * (city1[1] - city2[1])
          + (city1[2] - city2[2]) * (city1[2] - city2[2])]

\* None, the value of best_solution before any trial
None == [route |-> <<>>, distance |-> Infinity]

\* min that keeps the last of equal keys: the highest index among the nearest
M_NearestCity_LastOfTies(cities, unvisited, current_city) ==
    LET keyed == {<<calculate_distance(City(cities, current_city), City(cities, c)), c>> :
                     c \in unvisited}
        last == CHOOSE p \in keyed :
                    \A q \in keyed : p[1] < q[1] \/ (p[1] = q[1] /\ p[2] >= q[2])
    IN  last[2]

\* max instead of min: the farthest unvisited city
M_NearestCity_Farthest(cities, unvisited, current_city) ==
    LET keyed == {<<calculate_distance(City(cities, current_city), City(cities, c)), c>> :
                     c \in unvisited}
        last == CHOOSE p \in keyed :
                    \A q \in keyed : p[1] > q[1] \/ (p[1] = q[1] /\ p[2] <= q[2])
    IN  last[2]

\* min(unvisited, key = distance from current_city): the first minimum in
\* the set's iteration order, which for small ints is ascending
NearestCity(cities, unvisited, current_city) ==
    LET keyed == {<<calculate_distance(City(cities, current_city), City(cities, c)), c>> :
                     c \in unvisited}
        first == CHOOSE p \in keyed :
                     \A q \in keyed : p[1] < q[1] \/ (p[1] = q[1] /\ p[2] <= q[2])
    IN  first[2]

\* GreedyLoop without the leg back to the start city in total_distance
RECURSIVE M_GreedyLoop_OpenDistance(_, _, _, _, _, _)
M_GreedyLoop_OpenDistance(cities, unvisited, route, total_distance, current_city, start_city) ==
    IF unvisited # {}
    THEN LET nearest_city == NearestCity(cities, unvisited, current_city)
         IN  M_GreedyLoop_OpenDistance(cities, unvisited \ {nearest_city},
                        Append(route, nearest_city),
                        FAdd(total_distance,
                             calculate_distance(City(cities, current_city),
                                                City(cities, nearest_city))),
                        nearest_city, start_city)
    ELSE [route |-> Append(route, start_city), distance |-> total_distance]

\* the while loop and the closing leg shared by both greedy functions
RECURSIVE GreedyLoop(_, _, _, _, _, _)
GreedyLoop(cities, unvisited, route, total_distance, current_city, start_city) ==
    IF unvisited # {}
    THEN \* one iteration: the locals of the next iteration, bound as values
         CHOOSE result \in
             {GreedyLoop(cities, rest, longer, total, nearest_city, start_city) :
                 <<nearest_city, rest, longer, total>> \in
                     {<<c, unvisited \ {c}, Append(route, c),
                        FAdd(total_distance,
                             calculate_distance(City(cities, current_city),
                                                City(cities, c)))>> :
                         c \in {NearestCity(cities, unvisited, current_city)}}} : TRUE
    ELSE [route |-> Append(route, start_city),
          distance |-> FAdd(total_distance,
                            calculate_distance(City(cities, current_city),
                                               City(cities, start_city)))]

\* nearest_neighbor_tsp with unvisited = set(range(n)): city 0 is visited again
M_c_nearest_neighbor_tsp_KeepsStart(cities) ==
    IF cities = <<>> THEN [route |-> <<>>, distance |-> 0]
    ELSE GreedyLoop(cities, 0 .. (Len(cities) - 1), <<0>>, 0, 0, 0)

\* classical-optimizer.py nearest_neighbor_tsp
c_nearest_neighbor_tsp(cities) ==
    IF cities = <<>> THEN [route |-> <<>>, distance |-> 0]
    ELSE GreedyLoop(cities, 1 .. (Len(cities) - 1), <<0>>, 0, 0, 0)

\* nearest_neighbor_tsp_from_start that leaves start_city in unvisited
M_from_start_KeepsStart(cities, start_city) ==
    IF cities = <<>> THEN [route |-> <<>>, distance |-> 0]
    ELSE GreedyLoop(cities, 0 .. (Len(cities) - 1),
                    <<start_city>>, 0, start_city, start_city)

\* quantum-optimizer.py nearest_neighbor_tsp_from_start
nearest_neighbor_tsp_from_start(cities, start_city) ==
    IF cities = <<>> THEN [route |-> <<>>, distance |-> 0]
    ELSE GreedyLoop(cities, (0 .. (Len(cities) - 1)) \ {start_city},
                    <<start_city>>, 0, start_city, start_city)

\* quantum-optimizer.py nearest_neighbor_tsp
q_nearest_neighbor_tsp(cities) == nearest_neighbor_tsp_from_start(cities, 0)

classical_fallback_tsp(cities) == q_nearest_neighbor_tsp(cities)

\* sum(calculate_distance(cities[route[i]], cities[route[i+1]]) for i in ...)
RECURSIVE RouteSum(_, _, _, _)
RouteSum(cities, route, i, acc) ==
    IF i >= Len(route) THEN acc
    ELSE RouteSum(cities, route, i + 1,
                  FAdd(acc, calculate_distance(City(cities, route[i]),
                                               City(cities, route[i + 1]))))

RouteDistance(cities, route) == RouteSum(cities, route, 1, 0)

\* BruteStep with the comparison turned round: keeps the longest tour
M_BruteStep_KeepsLongest(cities, perm, best) ==
    LET route == <<0>> \o perm \o <<0>>
        distance == RouteDistance(cities, route)
    IN  IF best[2] = Infinity \/ FLess(best[2], distance)
        THEN <<route, distance>> ELSE best

\* BruteStep with <= for <: an equally short later tour replaces the best
M_BruteStep_KeepsLastOfTies(cities, perm, best) ==
    LET route == <<0>> \o perm \o <<0>>
        distance == RouteDistance(cities, route)
    IN  IF ~FLess(best[2], distance) THEN <<route, distance>> ELSE best

\* BruteStep that keeps the first permutation whatever comes after
M_BruteStep_KeepsFirst(cities, perm, best) ==
    LET route == <<0>> \o perm \o <<0>>
        distance == RouteDistance(cities, route)
    IN  IF best[2] = Infinity THEN <<route, distance>> ELSE best

\* the body of the for loop of brute_force_tsp for one permutation perm:
\* best is <<best_route, min_distance>> before and after
BruteStep(cities, perm, best) ==
    LET route == <<0>> \o perm \o <<0>>
        distance == RouteDistance(cities, route)
    IN  IF FLess(distance, best[2]) THEN <<route, distance>> ELSE best

\* the for loop over itertools.permutations(range(1, n)): the permutations
\* come in lexicographic order, so the loop is a depth-first walk that
\* extends the prefix by each remaining city in ascending order.
\* BruteWalk runs the loop over the permutations that start with prefix;
\* BruteFrom over those whose next city is in candidates.
RECURSIVE BruteWalk(_, _, _, _)
RECURSIVE BruteFrom(_, _, _, _, _)
BruteFrom(cities, prefix, remaining, candidates, best) ==
    IF candidates = {} THEN best
    ELSE LET x == CHOOSE m \in candidates : \A o \in candidates : m <= o
             after == BruteWalk(cities, Append(prefix, x), remaining \ {x}, best)
         IN  \* once a permutation was tried, min_distance is finite
             CASE after[2] # Infinity ->
                  BruteFrom(cities, prefix, remaining, candidates \ {x}, after)
BruteWalk(cities, prefix, remaining, best) ==
    IF remaining = {} THEN BruteStep(cities, prefix, best)
    ELSE BruteFrom(cities, prefix, remaining, remaining, best)

brute_force_tsp(cities) ==
    IF Len(cities) <= 1
    THEN [route |-> [i \in 1 .. Len(cities) |-> i - 1], distance |-> 0]
    ELSE LET best == BruteWalk(cities, <<>>, 1 .. (Len(cities) - 1), <<<<>>, Infinity>>)
         IN  [route |-> best[1], distance |-> best[2]]

----------------------------------------------------------------------------
(* Requests *)

max_qubits == 10          \* int(os.getenv('MAX_QUBITS', '10'))
ExactCeiling == 8         \* len(cities) <= 8 in the classical dispatch
MaxTrials == 50           \* min(shots // 100, 50)
ShotsPerTrial == 100      \* shots // 100

\* the corners of the unit square
Points == (0 .. 1) \X (0 .. 1)

RECURSIVE ListsOfLength(_)
ListsOfLength(n) ==
    IF n = 0 THEN {<<>>}
    ELSE {Append(l, p) : l \in ListsOfLength(n - 1), p \in Points}

GeneratedCityLists == UNION {ListsOfLength(n) : n \in 0 .. MaxN}

\* city lists of the repository's own test suites
Square4 == << <<0, 0>>, <<1, 0>>, <<1, 1>>, <<0, 1>> >>
Star5 == << <<0, 0>>, <<1, 0>>, <<2, 0>>, <<1, 1>>, <<1, -1>> >>
Medium6 == << <<0, 0>>, <<1, 1>>, <<2, 0>>, <<1, 2>>, <<3, 1>>, <<2, 3>> >>
Large10 == << <<0, 0>>, <<1, 1>>, <<2, 0>>, <<1, 2>>, <<3, 1>>,
              <<2, 3>>, <<4, 2>>, <<3, 4>>, <<5, 3>>, <<4, 5>> >>
Fallback12 == Large10 \o << <<6, 4>>, <<5, 6>> >>
\* a list on which the order of the float additions shows
Skew4 == << <<3, 0>>, <<3, 3>>, <<0, 3>>, <<2, 1>> >>

ScenarioCityLists == {Square4, Star5, Medium6, Large10, Fallback12, Skew4}

\* as many cities as the exact solver is given at most, and one more (the
\* large list without its first city, where the greedy tour is not the best)
AtCeiling == SubSeq(Large10, 2, ExactCeiling + 1)
OverCeiling == SubSeq(Large10, 2, ExactCeiling + 2)

ClassicalAlgorithms == {"nearest_neighbor", "brute_force", "two_opt"}
QuantumAlgorithms == {"qaoa", "vqe", "classical_fallback", "annealing"}

ClassicalRequests(lists) ==
    [handler : {"classical"}, cities : lists, algorithm : ClassicalAlgorithms,
     shots : {1000}, max_iterations : {50}]

QuantumRequests(lists, algorithms, shotsValues, maxIterationsValues) ==
    [handler : {"quantum"}, cities : lists, algorithm : algorithms,
     shots : shotsValues, max_iterations : maxIterationsValues]

\* every generated list with every algorithm the handlers know; the test
\* suites' lists also with an unknown algorithm, with too few shots for one
\* trial and with an empty randint range; the square also with negative
\* shots and with more shots than the cap allows; the classical handler also
\* with as many cities as its exact ceiling
Requests ==
    ClassicalRequests(GeneratedCityLists \cup ScenarioCityLists)
    \cup {r \in ClassicalRequests({AtCeiling}) : r.algorithm = "brute_force"}
    \cup QuantumRequests(GeneratedCityLists, {"qaoa", "vqe", "classical_fallback"},
                         {100}, {12})
    \cup QuantumRequests(ScenarioCityLists, QuantumAlgorithms, {99, 100, 200}, {10, 12})
    \cup QuantumRequests({Square4}, QuantumAlgorithms, {-100, 5100}, {12})

----------------------------------------------------------------------------
(* State *)

VARIABLES
    request,          \* the event body: handler, cities, algorithm, shots, max_iterations
    pc,               \* position of the handler
    algorithm,        \* the handler's local variable algorithm
    solution,         \* the handler's local variable solution (None before a solver returned)
    quantum_metadata, \* solution['quantum_metadata']
    iterations,       \* quantum_inspired_tsp: iterations
    trial,            \* quantum_inspired_tsp: trials done by the for loop
    best_solution,    \* quantum_inspired_tsp: best_solution
    best_distance,    \* quantum_inspired_tsp: best_distance
    trial_solution,   \* quantum_inspired_tsp: solution, the result of the last trial
    sampled,          \* the start cities drawn so far by np.random.randint
    raised,           \* the try block of the quantum handler raised
    experiments,      \* put_item calls on the experiments table, in order
    results,          \* items of the results table
    calls,            \* solver and persistence functions called, in order
    response,         \* the handler's return value
    process           \* what outlives an invocation in the process: np.random's state

vars == <<request, pc, algorithm, solution, quantum_metadata, iterations, trial,
          best_solution, best_distance, trial_solution, sampled, raised, experiments,
          results, calls, response, process>>

NoMetadata == [algorithm |-> "", shots |-> 0, max_iterations |-> 0, iterations |-> 0]
NoResponse == [statusCode |-> 0, algorithm |-> "", route |-> <<>>,
               total_distance |-> 0, quantum_metadata |-> NoMetadata,
               device_arn |-> "", error |-> ""]

error_response(status_code, error) ==
    [NoResponse EXCEPT !.statusCode = status_code, !.error = error]

N == Len(request.cities)

\* the state of a process (a warm lambda container) between invocations:
\* rng is the state of the module-wide generator np.random, written as the
\* raw values it will yield next; rng0 is rng when the module was imported;
\* served is the record of the invocations answered so far.  Spec follows a
\* single invocation with arbitrary draws and leaves process alone;
\* ProcessSpec follows a process through several invocations.
NoProcess == [rng0 |-> <<>>, rng |-> <<>>, served |-> <<>>]

\* the validation without the length test: if not cities
M_TooFewCities_EmptyOnly(cities) == cities = <<>>

\* if not cities or len(cities) < 2 (both handlers)
TooFewCities(cities) == cities = <<>> \/ Len(cities) < 2

Init ==
    /\ request \in Requests
    /\ pc = "start"
    /\ algorithm = request.algorithm
    /\ solution = None
    /\ quantum_metadata = NoMetadata
    /\ iterations = 0
    /\ trial = 0
    /\ best_solution = None
    /\ best_distance = Infinity
    /\ trial_solution = None
    /\ sampled = {}
    /\ raised = FALSE
    /\ experiments = <<>>
    /\ results = <<>>
    /\ calls = <<>>
    /\ response = NoResponse
    /\ process = NoProcess

----------------------------------------------------------------------------
(* classical-optimizer.py lambda_handler *)

\* the dispatch with the ceiling excluded: len(cities) < 8
M_ClassicalSolver_CeilingExclusive(alg, n) ==
    IF alg = "nearest_neighbor" THEN "nearest_neighbor_tsp"
    ELSE IF alg = "brute_force" /\ n < ExactCeiling THEN "brute_force_tsp"
    ELSE "nearest_neighbor_tsp"

\* the solver the classical dispatch runs
ClassicalSolver(alg, n) ==
    IF alg = "nearest_neighbor" THEN "nearest_neighbor_tsp"
    ELSE IF alg = "brute_force" /\ n <= ExactCeiling THEN "brute_force_tsp"
    ELSE "nearest_neighbor_tsp"

\* lambda_handler without the try around table.put_item
M_c_lambda_handler_StoreFailureFails ==
    /\ pc = "start"
    /\ request.handler = "classical"
    /\ pc' = "done"
    /\ IF TooFewCities(request.cities)
       THEN /\ response' = error_response(400, "At least 2 cities are required")
            /\ UNCHANGED <<solution, results, calls>>
       ELSE LET solver == ClassicalSolver(request.algorithm, N)
            IN  \* the solver runs once and its value is kept in solution
                \E sol \in {IF solver = "brute_force_tsp"
                            THEN brute_force_tsp(request.cities)
                            ELSE c_nearest_neighbor_tsp(request.cities)} :
                  LET result == [NoResponse EXCEPT
                                    !.statusCode = 200,
                                    !.algorithm = request.algorithm,
                                    !.route = sol.route,
                                    !.total_distance = sol.distance]
                  IN  /\ solution' = sol
                      /\ calls' = <<solver, "put_item">>
                      \* table.put_item may raise, and the exception reaches the outer except
                      /\ \E stored \in BOOLEAN :
                           /\ results' = IF stored
                                         THEN Append(results,
                                                     [algorithm |-> result.algorithm,
                                                      route |-> result.route,
                                                      total_distance |-> result.total_distance])
                                         ELSE results
                           /\ response' = IF stored THEN result
                                          ELSE error_response(500, "Internal server error")
    /\ UNCHANGED <<request, algorithm, quantum_metadata, iterations, trial,
                   best_solution, best_distance, trial_solution, sampled, raised,
                   experiments>>

c_lambda_handler ==
    /\ pc = "start"
    /\ request.handler = "classical"
    /\ pc' = "done"
    /\ IF TooFewCities(request.cities)
       THEN /\ response' = error_response(400, "At least 2 cities are required")
            /\ UNCHANGED <<solution, results, calls>>
       ELSE LET solver == ClassicalSolver(request.algorithm, N)
            IN  \* the solver runs once and its value is kept in solution
                \E sol \in {IF solver = "brute_force_tsp"
                            THEN brute_force_tsp(request.cities)
                            ELSE c_nearest_neighbor_tsp(request.cities)} :
                  LET result == [NoResponse EXCEPT
                                    !.statusCode = 200,
                                    !.algorithm = request.algorithm,
                                    !.route = sol.route,
                                    !.total_distance = sol.distance]
                  IN  /\ solution' = sol
                      /\ calls' = <<solver, "put_item">>
                      \* table.put_item may raise; the handler logs and continues
                      /\ \E stored \in BOOLEAN :
                             results' = IF stored
                                        THEN Append(results,
                                                    [algorithm |-> result.algorithm,
                                                     route |-> result.route,
                                                     total_distance |-> result.total_distance])
                                        ELSE results
                      /\ response' = result
    /\ UNCHANGED <<request, algorithm, quantum_metadata, iterations, trial,
                   best_solution, best_distance, trial_solution, sampled, raised,
                   experiments>>

----------------------------------------------------------------------------
(* quantum-optimizer.py *)

braket_device_arn == "BRAKET_DEVICE_ARN"

\* log_experiment that writes nothing for COMPLETED and FAILED
M_log_experiment_SkipsTerminal(log, status, alg, cities_count, put_ok) ==
    IF status # "STARTED" THEN log
    ELSE Append(log, [status |-> status, algorithm |-> alg,
                      cities_count |-> cities_count, ok |-> put_ok])

\* log_experiment that writes COMPLETED where it is handed FAILED
M_log_experiment_NeverFailed(log, status, alg, cities_count, put_ok) ==
    Append(log, [status |-> IF status = "FAILED" THEN "COMPLETED" ELSE status,
                 algorithm |-> alg, cities_count |-> cities_count, ok |-> put_ok])

\* log_experiment that writes nothing for STARTED
M_log_experiment_SkipsStarted(log, status, alg, cities_count, put_ok) ==
    IF status = "STARTED" THEN log
    ELSE Append(log, [status |-> status, algorithm |-> alg,
                      cities_count |-> cities_count, ok |-> put_ok])

\* log_experiment: one put_item on the experiments table; a failure of the
\* put is caught and logged inside log_experiment
log_experiment(log, status, alg, cities_count, put_ok) ==
    Append(log, [status |-> status, algorithm |-> alg,
                 cities_count |-> cities_count, ok |-> put_ok])

Min(a, b) == IF a < b THEN a ELSE b

\* iterations without the cap: shots // 100
M_TrialCount_Uncapped(shots) == shots \div ShotsPerTrial

\* iterations = min(shots // 100, 50)
TrialCount(shots) == Min(shots \div ShotsPerTrial, MaxTrials)

\* the dispatch without its classical_fallback branch
M_QuantumSolver_NoFallback(alg) ==
    IF alg = "vqe" THEN "vqe_tsp" ELSE "qaoa_tsp"

\* the dispatch whose else branch is the classical fallback
M_QuantumSolver_UnknownIsFallback(alg) ==
    IF alg = "qaoa" THEN "qaoa_tsp"
    ELSE IF alg = "vqe" THEN "vqe_tsp"
    ELSE "classical_fallback_tsp"

\* the function the dispatch of the quantum handler calls
QuantumSolver(alg) ==
    IF alg = "qaoa" THEN "qaoa_tsp"
    ELSE IF alg = "vqe" THEN "vqe_tsp"
    ELSE IF alg = "classical_fallback" THEN "classical_fallback_tsp"
    ELSE "qaoa_tsp"

\* lines 44-81: validation, downgrade, STARTED, dispatch.  The classical
\* fallback returns at once; qaoa_tsp and vqe_tsp enter quantum_inspired_tsp.
q_Begin ==
    /\ pc = "start"
    /\ request.handler = "quantum"
    /\ IF TooFewCities(request.cities)
       THEN /\ response' = error_response(400, "At least 2 cities are required")
            /\ pc' = "done"
            /\ UNCHANGED <<algorithm, solution, iterations, experiments, calls>>
       ELSE LET alg == IF N > max_qubits THEN "classical_fallback" ELSE request.algorithm
                solver == QuantumSolver(alg)
            IN  /\ algorithm' = alg
                /\ response' = response
                /\ \E started_ok \in BOOLEAN :
                     LET log == log_experiment(experiments, "STARTED", alg, N, started_ok)
                     IN  IF solver = "classical_fallback_tsp"
                         THEN /\ solution' = classical_fallback_tsp(request.cities)
                              /\ calls' = <<"log_experiment", solver, "log_experiment">>
                              /\ \E completed_ok \in BOOLEAN :
                                    experiments' = log_experiment(log, "COMPLETED", alg, N,
                                                                  completed_ok)
                              /\ iterations' = iterations
                              /\ pc' = "package"
                         ELSE /\ calls' = <<"log_experiment", solver, "quantum_inspired_tsp">>
                              /\ experiments' = log
                              /\ iterations' = TrialCount(request.shots)
                              /\ solution' = solution
                              /\ pc' = "sampling"
    /\ UNCHANGED <<request, quantum_metadata, trial, best_solution, best_distance,
                   trial_solution, sampled, raised, results>>

\* the comparison of line 215 true for the first trial only
M_Improves_OnlyFirst(sol, best) == best = Infinity

\* the comparison of line 215 always true: the last trial wins
M_Improves_Always(sol, best) == TRUE

\* the comparison of line 215 turned round: the longest trial wins
M_Improves_Longer(sol, best) == best = Infinity \/ FLess(best, sol.distance)

\* line 215: if solution['distance'] < best_distance
Improves(sol, best) == FLess(sol.distance, best)

\* lines 210-217: one iteration of the for loop of quantum_inspired_tsp
q_Trial ==
    /\ pc = "sampling"
    /\ trial < iterations
    /\ \E start_city \in 0 .. (N - 1) :
         LET sol == nearest_neighbor_tsp_from_start(request.cities, start_city)
         IN  /\ sampled' = sampled \cup {start_city}
             /\ trial_solution' = sol
             /\ IF Improves(sol, best_distance)
                THEN /\ best_distance' = sol.distance
                     /\ best_solution' = sol
                ELSE UNCHANGED <<best_distance, best_solution>>
    /\ trial' = trial + 1
    /\ calls' = Append(calls, "nearest_neighbor_tsp_from_start")
    /\ UNCHANGED <<request, pc, algorithm, solution, quantum_metadata, iterations,
                   raised, experiments, results, response>>

\* the values np.random.randint(10, max_iterations) can return
ConvergenceIterations(max_iterations) == 10 .. (max_iterations - 1)

\* the return of the solver with a log_experiment that lets the exception of
\* a failed COMPLETED put out into the except of the handler
M_q_SolverReturn_LogFailureRaises ==
    /\ pc = "sampling"
    /\ trial >= iterations
    /\ LET solver == QuantumSolver(algorithm)
           fails == \/ best_solution = None
                    \/ /\ solver = "vqe_tsp"
                       /\ ConvergenceIterations(request.max_iterations) = {}
       IN  \/ /\ raised' = TRUE
              /\ \E failed_ok \in BOOLEAN :
                    experiments' =
                        IF fails
                        THEN log_experiment(experiments, "FAILED", algorithm, N, failed_ok)
                        ELSE log_experiment(log_experiment(experiments, "COMPLETED",
                                                           algorithm, N, FALSE),
                                            "FAILED", algorithm, N, failed_ok)
              /\ solution' = classical_fallback_tsp(request.cities)
              /\ algorithm' = "classical_fallback"
              /\ calls' = calls \o <<"log_experiment", "classical_fallback_tsp">>
              /\ UNCHANGED quantum_metadata
           \/ /\ ~fails
              /\ solution' = best_solution
              /\ \E drawn \in (IF solver = "vqe_tsp"
                               THEN ConvergenceIterations(request.max_iterations)
                               ELSE {0}) :
                    quantum_metadata' =
                        [algorithm |-> IF solver = "vqe_tsp" THEN "VQE" ELSE "QAOA",
                         shots |-> request.shots,
                         max_iterations |-> request.max_iterations,
                         iterations |-> drawn]
              /\ experiments' = log_experiment(experiments, "COMPLETED", algorithm, N, TRUE)
              /\ calls' = Append(calls, "log_experiment")
              /\ UNCHANGED <<raised, algorithm>>
    \* the loop variable solution of quantum_inspired_tsp is gone
    /\ trial_solution' = None
    /\ pc' = "package"
    /\ UNCHANGED <<request, iterations, trial, best_solution, best_distance,
                   sampled, results, response>>

\* quantum_inspired_tsp returns best_solution to qaoa_tsp or vqe_tsp, which
\* attaches the metadata (subscripting None raises; randint raises on an
\* empty range) and returns to the try block of the handler (lines 81-88)
q_SolverReturn ==
    /\ pc = "sampling"
    /\ trial >= iterations
    /\ LET solver == QuantumSolver(algorithm)
           fails == \/ best_solution = None
                    \/ /\ solver = "vqe_tsp"
                       /\ ConvergenceIterations(request.max_iterations) = {}
       IN  IF fails
           THEN /\ raised' = TRUE
                /\ \E failed_ok \in BOOLEAN :
                      experiments' = log_experiment(experiments, "FAILED", algorithm, N,
                                                    failed_ok)
                /\ solution' = classical_fallback_tsp(request.cities)
                /\ algorithm' = "classical_fallback"
                /\ calls' = calls \o <<"log_experiment", "classical_fallback_tsp">>
                /\ UNCHANGED quantum_metadata
           ELSE /\ solution' = best_solution
                /\ \E drawn \in (IF solver = "vqe_tsp"
                                 THEN ConvergenceIterations(request.max_iterations)
                                 ELSE {0}) :
                      quantum_metadata' =
                          [algorithm |-> IF solver = "vqe_tsp" THEN "VQE" ELSE "QAOA",
                           shots |-> request.shots,
                           max_iterations |-> request.max_iterations,
                           iterations |-> drawn]
                /\ \E completed_ok \in BOOLEAN :
                      experiments' = log_experiment(experiments, "COMPLETED", algorithm, N,
                                                    completed_ok)
                /\ calls' = Append(calls, "log_experiment")
                /\ UNCHANGED <<raised, algorithm>>
    \* the loop variable solution of quantum_inspired_tsp is gone
    /\ trial_solution' = None
    /\ pc' = "package"
    /\ UNCHANGED <<request, iterations, trial, best_solution, best_distance,
                   sampled, results, response>>

\* store_result: the put_item on the results table; when the put fails
\* store_result logs and re-raises
store_result(table, result, put_ok) ==
    IF put_ok
    THEN Append(table, [algorithm |-> result.algorithm, route |-> result.route,
                        total_distance |-> result.total_distance])
    ELSE table

\* lines 90-122: the result, store_result, and the response; an exception
\* of store_result reaches the outer except, which answers 500
q_Respond ==
    /\ pc = "package"
    /\ LET result == [NoResponse EXCEPT
                         !.statusCode = 200,
                         !.algorithm = algorithm,
                         !.route = solution.route,
                         !.total_distance = solution.distance,
                         !.quantum_metadata = quantum_metadata,
                         !.device_arn = IF algorithm # "classical_fallback"
                                        THEN braket_device_arn ELSE "None"]
       IN  \E stored \in BOOLEAN :
              /\ results' = store_result(results, result, stored)
              /\ response' = IF stored THEN result
                             ELSE error_response(500, "Internal server error")
    /\ calls' = Append(calls, "store_result")
    /\ pc' = "done"
    /\ UNCHANGED <<request, algorithm, solution, quantum_metadata, iterations, trial,
                   best_solution, best_distance, trial_solution, sampled, raised,
                   experiments>>

\* one invocation on its own: the steps of the handlers, with the process
\* state out of the picture
solo_c_lambda_handler == c_lambda_handler /\ UNCHANGED process
solo_q_Begin == q_Begin /\ UNCHANGED process
solo_q_Trial == q_Trial /\ UNCHANGED process
solo_q_SolverReturn == q_SolverReturn /\ UNCHANGED process
solo_q_Respond == q_Respond /\ UNCHANGED process

Next ==
    \/ solo_c_lambda_handler
    \/ solo_q_Begin
    \/ solo_q_Trial
    \/ solo_q_SolverReturn
    \/ solo_q_Respond


Spec == Init /\ [][Next]_vars

----------------------------------------------------------------------------
(* Properties *)

\* route is a closed tour of n cities: n+1 entries, first = last, and the
\* first n entries are the indices 0..n-1, each once
ValidRoute(route, n) ==
    /\ Len(route) = n + 1
    /\ route[1] = route[n + 1]
    /\ {route[i] : i \in 1 .. n} = 0 .. (n - 1)

\* the solutions the solvers have returned in this state
StateSolutions == {solution, best_solution, trial_solution} \ {None}

\* every closed tour of n cities, from any start city, in any order
ClosedTours(n) ==
    {[i \in 1 .. (n + 1) |-> p[(i - 1) % n]] : p \in Permutations(0 .. (n - 1))}

\* the closed tours that start and end at city 0
AnchoredTours(n) == {t \in ClosedTours(n) : t[1] = 0}

\* the classical handler has answered a request solved by brute_force_tsp
ExactRan ==
    /\ pc = "done"
    /\ request.handler = "classical"
    /\ calls # <<>>
    /\ calls[1] = "brute_force_tsp"

\* quantum_inspired_tsp has returned after at least one trial
SampledReturned == pc \in {"package", "done"} /\ trial >= 1

GreedyFrom(start_city) == nearest_neighbor_tsp_from_start(request.cities, start_city)

\* C1: for n >= 2 every route a solver returned (greedy from 0, greedy from
\* any start, brute force, sampled) has n+1 entries, ends where it starts and
\* holds each index of 0..n-1 exactly once among its first n entries.
C1_RoutesAreClosedTours ==
    N >= 2 => \A s \in StateSolutions : ValidRoute(s.route, N)

\* a sampled request answered with a tour that starts away from city 0
C1_Witness ==
    /\ pc = "done"
    /\ response.statusCode = 200
    /\ N >= 4
    /\ 0 \notin sampled
    /\ solution = best_solution
    /\ solution.route[1] # 0

\* C2: the distance of every returned solution is the sum of
\* calculate_distance over the consecutive pairs of its route, the leg back
\* to the start included; the response carries that distance.
C2_DistanceIsRouteLength ==
    /\ \A s \in StateSolutions : s.distance = RouteDistance(request.cities, s.route)
    /\ response.statusCode = 200 =>
          response.total_distance = RouteDistance(request.cities, response.route)

\* brute force and a greedy run from another start, both on five cities or more
C2_Witness ==
    \/ ExactRan /\ N >= 5 /\ response.statusCode = 200
    \/ /\ pc = "done" /\ N >= 5 /\ response.statusCode = 200
       /\ response.route[1] # 0

\* C3: a request with at least 2 cities is answered 200 with a route and a
\* distance whatever happens while solving or storing; only a request with
\* fewer than 2 cities is answered with an error.
C3_ValidRequestAlwaysSucceeds ==
    pc = "done" =>
        IF N >= 2
        THEN response.statusCode = 200 /\ ValidRoute(response.route, N)
        ELSE response.statusCode = 400

\* C4: when the dispatched solver raised, the handler answers with the greedy
\* solution from start 0 and reports the algorithm classical_fallback.
C4_SolverFailureFallsBack ==
    (pc = "done" /\ raised) =>
        /\ response.statusCode = 200
        /\ response.route = q_nearest_neighbor_tsp(request.cities).route
        /\ response.total_distance = q_nearest_neighbor_tsp(request.cities).distance
        /\ response.algorithm = "classical_fallback"

\* C5: brute_force requested with more cities than the exact ceiling: the
\* response never reports brute_force as the algorithm.
C5_DowngradeIsReported ==
    (/\ pc = "done"
     /\ request.handler = "classical"
     /\ request.algorithm = "brute_force"
     /\ N > ExactCeiling) => response.algorithm # "brute_force"

\* C6: a request with fewer than 2 cities is answered 400 and no solver and
\* no fallback is called for it, whatever the algorithm.
C6_TooFewCitiesRejected ==
    N < 2 =>
        /\ calls = <<>>
        /\ StateSolutions = {}
        /\ pc = "done" => response.statusCode = 400

\* a single city sent to the quantum handler and answered
C6_Witness ==
    /\ pc = "done"
    /\ N = 1
    /\ request.handler = "quantum"
    /\ response.statusCode = 400

\* C7 as claimed: the exact solver's distance is at most the length of
\* every closed tour, whatever its start city and order.
C7_ExactIsGlobalMinimum ==
    ExactRan =>
        \A t \in ClosedTours(N) :
            ~FLess(RouteDistance(request.cities, t), solution.distance)

\* C7 as amended: the exact solver's distance is at most the length of every
\* closed tour that starts and ends at city 0, and its route is such a tour.
C7_ExactIsMinimumFromCityZero ==
    ExactRan =>
        /\ solution.route \in AnchoredTours(N)
        /\ \A t \in AnchoredTours(N) :
              ~FLess(RouteDistance(request.cities, t), solution.distance)

\* brute force answered on five cities or more where some tour is longer
C7_Witness ==
    /\ ExactRan
    /\ N >= 5
    /\ \E t \in AnchoredTours(N) :
          FLess(solution.distance, RouteDistance(request.cities, t))

\* C8: up to the exact ceiling the exact solver's distance is at most the
\* greedy distance from start 0 on the same cities.
C8_ExactNotLongerThanGreedy ==
    (pc = "done" /\ request.handler = "classical" /\ N <= ExactCeiling) =>
        ~FLess(c_nearest_neighbor_tsp(request.cities).distance,
               brute_force_tsp(request.cities).distance)

\* brute force answered with a tour strictly shorter than the greedy one
C8_Witness ==
    /\ ExactRan
    /\ solution = brute_force_tsp(request.cities)
    /\ FLess(solution.distance, c_nearest_neighbor_tsp(request.cities).distance)

\* C9 as claimed: after at least one trial the sampled distance is at most
\* the greedy distance from start 0.
C9_SampledNotLongerThanGreedyFromZero ==
    SampledReturned =>
        ~FLess(GreedyFrom(0).distance, best_solution.distance)

\* C9 as amended: the same, when start 0 is one of the sampled starts.
C9_SampledNotLongerWhenZeroSampled ==
    (SampledReturned /\ 0 \in sampled) =>
        ~FLess(GreedyFrom(0).distance, best_solution.distance)

\* start 0 and a start with a longer greedy tour were both sampled
C9_Witness ==
    /\ SampledReturned
    /\ 0 \in sampled
    /\ \E s \in sampled : FLess(GreedyFrom(0).distance, GreedyFrom(s).distance)

\* C10: the sampled constructor's solution is the greedy tour of one of the
\* sampled starts, no sampled start has a shorter greedy tour, and that
\* solution is what qaoa_tsp and vqe_tsp hand to the handler.
C10_SampledIsBestOfSampledStarts ==
    /\ best_solution # None =>
          LET tours == {GreedyFrom(s) : s \in sampled}
          IN  /\ best_solution \in tours
              /\ \A t \in tours : ~FLess(t.distance, best_solution.distance)
              /\ best_distance = best_solution.distance
    /\ (SampledReturned /\ ~raised) => solution = best_solution

\* two different starts sampled, one of them with a strictly longer tour,
\* and the answer sent
C10_Witness ==
    /\ pc = "done"
    /\ response.statusCode = 200
    /\ ~raised
    /\ Cardinality(sampled) >= 2
    /\ \E s \in sampled : FLess(best_solution.distance, GreedyFrom(s).distance)

----------------------------------------------------------------------------
(* Strategy selection *)

\* the solver functions of the sampled strategy
SampledSolvers == {"qaoa_tsp", "vqe_tsp"}

\* the functions that only run for a request resolved to the sampled strategy
SampledCalls == SampledSolvers \cup {"quantum_inspired_tsp", "nearest_neighbor_tsp_from_start"}

CalledFunctions == {calls[i] : i \in 1 .. Len(calls)}

\* the quantum handler is past its dispatch for a request with enough cities
Dispatched == request.handler = "quantum" /\ N >= 2 /\ pc # "start"

\* quantum_inspired_tsp has returned to qaoa_tsp or vqe_tsp
SamplerReturned ==
    /\ Dispatched
    /\ pc \in {"package", "done"}
    /\ "quantum_inspired_tsp" \in CalledFunctions

\* C11: a qaoa or vqe request with positive shots and 2 <= n <= max_qubits
\* runs at least one greedy trial, the sampled constructor returns a solution
\* and not None, and the requested algorithm is the one reported.
C11_PositiveShotsRunATrial ==
    (/\ Dispatched
     /\ pc \in {"package", "done"}
     /\ request.algorithm \in {"qaoa", "vqe"}
     /\ request.shots > 0
     /\ N <= max_qubits) =>
        /\ trial >= 1
        /\ best_solution # None
        /\ algorithm = request.algorithm
        /\ response.statusCode = 200 => response.algorithm = request.algorithm

\* C12: a qaoa or vqe request with more than max_qubits cities is solved by
\* the greedy constructor from start 0, no sampled solver and no trial runs
\* for it, and its result reports classical_fallback and never the requested
\* name; with exactly max_qubits cities the requested solver is called.
C12_TooManyCitiesDowngraded ==
    (Dispatched /\ request.algorithm \in {"qaoa", "vqe"}) =>
        /\ N > max_qubits =>
              /\ CalledFunctions \cap SampledCalls = {}
              /\ "classical_fallback_tsp" \in CalledFunctions
              /\ trial = 0
              /\ algorithm = "classical_fallback"
              /\ solution = q_nearest_neighbor_tsp(request.cities)
              /\ response.algorithm # request.algorithm
              /\ response.statusCode = 200 =>
                    /\ response.algorithm = "classical_fallback"
                    /\ response.route = solution.route
                    /\ response.total_distance = solution.distance
        /\ N = max_qubits =>
              /\ calls[2] = QuantumSolver(request.algorithm)
              /\ calls[2] \in SampledSolvers
              /\ pc = "sampling" => algorithm = request.algorithm

\* twelve cities sent for vqe and answered as classical_fallback
C12_Witness ==
    /\ pc = "done"
    /\ request.handler = "quantum"
    /\ request.algorithm = "vqe"
    /\ N > max_qubits
    /\ response.statusCode = 200
    /\ response.algorithm = "classical_fallback"
    /\ response.route[2] # 0

\* C13 as claimed: a qaoa, vqe or classical_fallback request with at most
\* max_qubits cities is resolved to the sampled constructor.
C13_FallbackRequestIsSampled ==
    (/\ Dispatched
     /\ request.algorithm \in {"qaoa", "vqe", "classical_fallback"}
     /\ N <= max_qubits) =>
        /\ calls[2] \in SampledSolvers
        /\ "quantum_inspired_tsp" \in CalledFunctions

\* C13 as amended: with at most max_qubits cities every algorithm name but
\* classical_fallback is resolved to the sampled constructor (an unknown name
\* as qaoa), and classical_fallback to the greedy constructor from start 0
\* without any sampled trial.
C13_NamedFallbackIsGreedy ==
    (Dispatched /\ N <= max_qubits) =>
        IF request.algorithm = "classical_fallback"
        THEN /\ CalledFunctions \cap SampledCalls = {}
             /\ calls[2] = "classical_fallback_tsp"
             /\ trial = 0
             /\ solution = q_nearest_neighbor_tsp(request.cities)
        ELSE /\ calls[2] = (IF request.algorithm = "vqe" THEN "vqe_tsp" ELSE "qaoa_tsp")
             /\ calls[3] = "quantum_inspired_tsp"
             /\ pc \in {"package", "done"} =>
                   /\ trial = Cardinality({i \in 1 .. Len(calls) :
                                             calls[i] = "nearest_neighbor_tsp_from_start"})
                   /\ ~raised => solution = best_solution

\* an unknown algorithm name with exactly max_qubits cities, sampled twice
C13_Witness ==
    /\ pc = "done"
    /\ request.handler = "quantum"
    /\ request.algorithm = "annealing"
    /\ N = max_qubits
    /\ trial >= 2
    /\ ~raised
    /\ response.statusCode = 200
    /\ response.algorithm = "annealing"

\* C14: in the classical handler a request with n >= 2 is solved by the exact
\* solver if and only if it asks for brute_force and n <= 8; every other
\* request is solved by the nearest-neighbor constructor from start 0.
C14_ExactOnlyUpToCeiling ==
    (pc = "done" /\ request.handler = "classical" /\ N >= 2) =>
        LET exact == request.algorithm = "brute_force" /\ N <= ExactCeiling
        IN  /\ calls[1] = (IF exact THEN "brute_force_tsp" ELSE "nearest_neighbor_tsp")
            /\ solution = (IF exact THEN brute_force_tsp(request.cities)
                           ELSE c_nearest_neighbor_tsp(request.cities))
            /\ solution.route[1] = 0

\* brute_force with exactly as many cities as the ceiling, solved exactly and
\* better than the greedy tour
C14_Witness ==
    /\ ExactRan
    /\ N = ExactCeiling
    /\ FLess(solution.distance, c_nearest_neighbor_tsp(request.cities).distance)

\* C15: the number of greedy trials of the sampled constructor is the number
\* of whole hundreds in shots, at least 0 and at most 50, whatever shots is.
C15_TrialsNeverExceedCap ==
    /\ trial <= MaxTrials
    /\ Cardinality({i \in 1 .. Len(calls) :
                      calls[i] = "nearest_neighbor_tsp_from_start"}) = trial
    /\ SamplerReturned =>
          trial = (IF request.shots < ShotsPerTrial THEN 0
                   ELSE IF request.shots >= MaxTrials * ShotsPerTrial THEN MaxTrials
                   ELSE request.shots \div ShotsPerTrial)

\* more shots than fifty hundreds, and fifty trials run
C15_Witness ==
    /\ SamplerReturned
    /\ request.shots > MaxTrials * ShotsPerTrial
    /\ trial = MaxTrials

\* C18: the unit square [[0,0],[1,0],[1,1],[0,1]] solved by the greedy
\* algorithm: the route starts and ends at city 0 and the distance is
\* exactly 4.
C18_UnitSquareIsFour ==
    (/\ pc = "done"
     /\ request.cities = Square4
     /\ response.statusCode = 200
     /\ \/ request.handler = "classical" /\ request.algorithm = "nearest_neighbor"
        \/ request.handler = "quantum" /\ request.algorithm = "classical_fallback") =>
        /\ ValidRoute(response.route, 4)
        /\ response.route[1] = 0
        /\ response.route[Len(response.route)] = 0
        \* the float 4.0
        /\ response.total_distance = 4 * Pow2(Precision - 1)

\* the classical handler has answered the square with the tour round it
C18_Witness ==
    /\ pc = "done"
    /\ request.handler = "classical"
    /\ request.algorithm = "nearest_neighbor"
    /\ request.cities = Square4
    /\ response.statusCode = 200
    /\ response.route = <<0, 1, 2, 3, 0>>

\* algorithm, route and distance the try block of the quantum handler leaves
\* for the start cities drawn in this run when max_iterations is m
OutcomeWith(m) ==
    LET solver == QuantumSolver(IF N > max_qubits THEN "classical_fallback"
                                ELSE request.algorithm)
        greedy == classical_fallback_tsp(request.cities)
        fallback == [algorithm |-> "classical_fallback", route |-> greedy.route,
                     distance |-> greedy.distance]
    IN  IF solver = "classical_fallback_tsp" THEN fallback
        ELSE IF \/ best_solution = None
                \/ solver = "vqe_tsp" /\ ConvergenceIterations(m) = {}
             THEN fallback
             ELSE [algorithm |-> request.algorithm, route |-> best_solution.route,
                   distance |-> best_solution.distance]

\* the handler's algorithm and solution are those of OutcomeWith
OutcomeIsOutcomeWith ==
    (Dispatched /\ pc \in {"package", "done"}) =>
        [algorithm |-> algorithm, route |-> solution.route,
         distance |-> solution.distance] = OutcomeWith(request.max_iterations)

\* C19: with the same cities, algorithm, shots and drawn start cities, every
\* positive max_iterations gives the same route, distance and reported
\* algorithm as the one the request carries.
C19_MaxIterationsIsAdvisory ==
    (Dispatched /\ pc \in {"package", "done"}) =>
        /\ OutcomeIsOutcomeWith
        /\ \A m \in 1 .. (request.max_iterations + 2) :
              OutcomeWith(m) = OutcomeWith(request.max_iterations)

\* the statuses handed to log_experiment, in order
Statuses == [i \in 1 .. Len(experiments) |-> experiments[i].status]

\* the position in calls of the first solver function
FirstSolverCall ==
    CHOOSE i \in 1 .. Len(calls) :
        /\ calls[i] \in SampledSolvers \cup {"classical_fallback_tsp"}
        /\ \A j \in 1 .. (i - 1) : calls[j] \notin SampledSolvers \cup {"classical_fallback_tsp"}

\* C20: the statuses the quantum handler writes for a request are STARTED,
\* written before any solver runs, and then exactly one of COMPLETED and
\* FAILED, after which nothing is written.
C20_ExperimentLifecycle ==
    request.handler = "quantum" =>
        /\ ~Dispatched => experiments = <<>>
        /\ Dispatched =>
              /\ calls[1] = "log_experiment"
              /\ FirstSolverCall = 2
              /\ experiments # <<>>
              /\ Statuses[1] = "STARTED"
        /\ pc = "sampling" => Statuses = <<"STARTED">>
        /\ (Dispatched /\ pc \in {"package", "done"}) =>
              Statuses \in {<<"STARTED", "COMPLETED">>, <<"STARTED", "FAILED">>}

\* a run whose solver raised, answered after STARTED and FAILED
C20_Witness ==
    /\ pc = "done"
    /\ request.handler = "quantum"
    /\ raised
    /\ Statuses = <<"STARTED", "FAILED">>
    /\ experiments[1].ok /\ experiments[2].ok
    /\ response.statusCode = 200

----------------------------------------------------------------------------
(* The solver functions called directly, outside the handlers *)

\* the start cities a caller can pass for a city list (any for an empty one)
StartCities(cities) == IF cities = <<>> THEN {0} ELSE 0 .. (Len(cities) - 1)

\* one call of a solver function: the function, its city list, and the
\* start city for nearest_neighbor_tsp_from_start
SolverCalls(lists) ==
    [function : {"nearest_neighbor_tsp", "brute_force_tsp"}, cities : lists,
     start_city : {0}]
    \cup UNION {{[function |-> "nearest_neighbor_tsp_from_start", cities |-> l,
                   start_city |-> s] : s \in StartCities(l)} : l \in lists}

\* nothing has run yet and request is one of callSet
DirectInit(callSet) ==
    /\ request \in callSet
    /\ pc = "start"
    /\ algorithm = ""
    /\ solution = None
    /\ quantum_metadata = NoMetadata
    /\ iterations = 0
    /\ trial = 0
    /\ best_solution = None
    /\ best_distance = Infinity
    /\ trial_solution = None
    /\ sampled = {}
    /\ raised = FALSE
    /\ experiments = <<>>
    /\ results = <<>>
    /\ calls = <<>>
    /\ response = NoResponse
    /\ process = NoProcess

\* the function returns value to its caller
Returns(value) ==
    /\ solution' = value
    /\ calls' = <<request.function>>
    /\ pc' = "returned"
    /\ UNCHANGED <<request, algorithm, quantum_metadata, iterations, trial,
                   best_solution, best_distance, trial_solution, sampled, raised,
                   experiments, results, response, process>>

\* classical-optimizer.py nearest_neighbor_tsp(cities)
call_nearest_neighbor_tsp ==
    /\ pc = "start"
    /\ request.function = "nearest_neighbor_tsp"
    /\ Returns(c_nearest_neighbor_tsp(request.cities))

\* quantum-optimizer.py nearest_neighbor_tsp_from_start(cities, start_city)
call_nearest_neighbor_tsp_from_start ==
    /\ pc = "start"
    /\ request.function = "nearest_neighbor_tsp_from_start"
    /\ Returns(nearest_neighbor_tsp_from_start(request.cities, request.start_city))

\* classical-optimizer.py brute_force_tsp(cities): no statement of it raises
call_brute_force_tsp ==
    /\ pc = "start"
    /\ request.function = "brute_force_tsp"
    /\ Returns(brute_force_tsp(request.cities))

SolverNext ==
    \/ call_nearest_neighbor_tsp
    \/ call_nearest_neighbor_tsp_from_start
    \/ call_brute_force_tsp

\* every solver function on every generated city list, and the greedy
\* constructors on the lists of the test suites
SolverInit ==
    DirectInit(SolverCalls(GeneratedCityLists)
               \cup {c \in SolverCalls(ScenarioCityLists) :
                        c.function # "brute_force_tsp"})

SolverSpec == SolverInit /\ [][SolverNext]_vars

\* the same, and the exact solver on one city more than its ceiling
OversizeInit ==
    DirectInit(SolverCalls(GeneratedCityLists)
               \cup [function : {"brute_force_tsp"}, cities : {OverCeiling},
                     start_city : {0}])

OversizeSpec == OversizeInit /\ [][SolverNext]_vars

\* a greedy constructor has returned
GreedyReturned ==
    /\ pc = "returned"
    /\ request.function \in {"nearest_neighbor_tsp", "nearest_neighbor_tsp_from_start"}

\* C16: the greedy constructor returns an empty route and distance 0 for no
\* city, and a route of a single element and distance 0 for one city.
C16_GreedyDegenerateInputs ==
    GreedyReturned =>
        /\ N = 0 => solution.route = <<>> /\ solution.distance = 0
        /\ N = 1 => Len(solution.route) = 1 /\ solution.distance = 0

\* C17: the exact solver called with more cities than its ceiling raises and
\* returns no solution.
C17_ExactRefusesAboveCeiling ==
    (/\ pc = "returned"
     /\ request.function = "brute_force_tsp"
     /\ N > ExactCeiling) => raised /\ solution = None

----------------------------------------------------------------------------
(* A process that handles several invocations *)

\* np.random.randint(low, high) on the module-wide generator: the value is
\* fixed by the generator's state (and the call moves the state on)
randint(low, high, state) == low + (Head(state) % (high - low))

\* the states the generator can be in when the module is imported (it is
\* seeded from the operating system): every stream of raw values, long
\* enough for the draws of MaxInvocations requests of ProcessRequests
RECURSIVE Streams(_)
Streams(len) ==
    IF len = 0 THEN {<<>>}
    ELSE {Append(st, v) : st \in Streams(len - 1), v \in 0 .. MaxVariate}

\* the requests sent to a process: one trial each in the quantum handler
ProcessRequests ==
    ClassicalRequests({Square4, Medium6})
    \cup QuantumRequests({Square4, Medium6}, {"qaoa", "vqe", "classical_fallback"},
                         {100}, {12})

\* quantum_inspired_tsp's loop run from generator state state: iterations
\* trials left, best the best_solution so far
RECURSIVE SampledFrom(_, _, _, _)
SampledFrom(cities, iters, state, best) ==
    IF iters <= 0 THEN best
    ELSE LET sol == nearest_neighbor_tsp_from_start(cities,
                                                    randint(0, Len(cities), state))
         IN  SampledFrom(cities, iters - 1, Tail(state),
                         IF Improves(sol, best.distance) THEN sol ELSE best)

\* the solution the handler computes for req when req is the first request
\* of a process whose generator starts in state state
FirstOutcome(req, state) ==
    IF req.handler = "classical"
    THEN IF ClassicalSolver(req.algorithm, Len(req.cities)) = "brute_force_tsp"
         THEN brute_force_tsp(req.cities)
         ELSE c_nearest_neighbor_tsp(req.cities)
    ELSE LET solver == QuantumSolver(IF Len(req.cities) > max_qubits
                                     THEN "classical_fallback" ELSE req.algorithm)
             best == SampledFrom(req.cities, TrialCount(req.shots), state, None)
         IN  IF \/ solver = "classical_fallback_tsp"
                \/ best = None
                \/ solver = "vqe_tsp" /\ ConvergenceIterations(req.max_iterations) = {}
             THEN classical_fallback_tsp(req.cities)
             ELSE best

\* the module is imported and the first event arrives
ProcessInit ==
    /\ request \in ProcessRequests
    /\ pc = "start"
    /\ algorithm = request.algorithm
    /\ solution = None
    /\ quantum_metadata = NoMetadata
    /\ iterations = 0
    /\ trial = 0
    /\ best_solution = None
    /\ best_distance = Infinity
    /\ trial_solution = None
    /\ sampled = {}
    /\ raised = FALSE
    /\ experiments = <<>>
    /\ results = <<>>
    /\ calls = <<>>
    /\ response = NoResponse
    \* classical-optimizer.py imports no random generator
    /\ \E st \in (IF request.handler = "quantum"
                   THEN Streams(2 * MaxInvocations) ELSE {<<>>}) :
          process = [rng0 |-> st, rng |-> st, served |-> <<>>]

\* process with one more invocation answered
Served(resp, best) ==
    [process EXCEPT !.served = Append(@, [request |-> request, response |-> resp,
                                          sampled_solution |-> best])]

p_c_lambda_handler ==
    /\ c_lambda_handler
    /\ process' = Served(response', None)

\* a rejected request is answered at once
p_Begin ==
    /\ q_Begin
    /\ process' = IF pc' = "done" THEN Served(response', None) ELSE process

\* line 212: the start city is the generator's next value
p_Trial ==
    /\ process.rng # <<>>
    /\ q_Trial
    /\ trial_solution'.route[1] = randint(0, N, process.rng)
    /\ process' = [process EXCEPT !.rng = Tail(@)]

\* line 183: vqe_tsp draws its convergence iterations while it builds the
\* metadata (before it reads solution['distance']), unless the range is empty
p_SolverReturn ==
    /\ q_SolverReturn
    /\ IF /\ QuantumSolver(algorithm) = "vqe_tsp"
          /\ ConvergenceIterations(request.max_iterations) # {}
       THEN /\ process.rng # <<>>
            /\ raised' \/ quantum_metadata'.iterations =
                              randint(10, request.max_iterations, process.rng)
            /\ process' = [process EXCEPT !.rng = Tail(@)]
       ELSE process' = process

p_Respond ==
    /\ q_Respond
    /\ process' = Served(response', best_solution)

\* the next event arrives at the same process: the handler's locals are new,
\* the module-wide generator is as the invocations before left it;
\* experiments and results show the items of the invocation under way
p_NextInvocation ==
    /\ pc = "done"
    /\ Len(process.served) < MaxInvocations
    /\ request' \in {r \in ProcessRequests : r.handler = request.handler}
    /\ pc' = "start"
    /\ algorithm' = request'.algorithm
    /\ solution' = None
    /\ quantum_metadata' = NoMetadata
    /\ iterations' = 0
    /\ trial' = 0
    /\ best_solution' = None
    /\ best_distance' = Infinity
    /\ trial_solution' = None
    /\ sampled' = {}
    /\ raised' = FALSE
    /\ experiments' = <<>>
    /\ results' = <<>>
    /\ calls' = <<>>
    /\ response' = NoResponse
    /\ UNCHANGED process

ProcessNext ==
    \/ p_c_lambda_handler
    \/ p_Begin
    \/ p_Trial
    \/ p_SolverReturn
    \/ p_Respond
    \/ p_NextInvocation

ProcessSpec == ProcessInit /\ [][ProcessNext]_vars

\* the first invocation of a process gets the solution of FirstOutcome
FirstInvocationIsFirstOutcome ==
    (pc = "done" /\ Len(process.served) = 1 /\ response.statusCode = 200) =>
        solution = FirstOutcome(request, process.rng0)

\* C21: the route and distance a request is answered with are those the same
\* request gets when it is the first one its process handles: they do not
\* depend on the requests the process handled before.
C21_NoCrossRequestState ==
    (pc = "done" /\ response.statusCode = 200) =>
        LET first == FirstOutcome(request, process.rng0)
        IN  /\ response.route = first.route
            /\ response.total_distance = first.distance

\* C22: two runs of the sampled constructor on the same cities with the same
\* number of trials, in a process seeded once, return the same route and
\* distance.
C22_SameSeedSameTour ==
    \A i, j \in 1 .. Len(process.served) :
        LET a == process.served[i]
            b == process.served[j]
        IN  (/\ a.sampled_solution # None
             /\ b.sampled_solution # None
             /\ a.request.cities = b.request.cities
             /\ TrialCount(a.request.shots) = TrialCount(b.request.shots)) =>
                a.sampled_solution = b.sampled_solution

----------------------------------------------------------------------------
(* Persistence, ties and termination *)

\* C23: in the classical handler a failed store of the result changes
\* nothing in the response: it is the 200 with the route and distance of the
\* solution and the requested algorithm, whether the item was stored or not.
C23_ClassicalStoreFailureSwallowed ==
    (pc = "done" /\ request.handler = "classical" /\ N >= 2) =>
        /\ calls[Len(calls)] = "put_item"
        /\ Len(results) <= 1
        /\ response.statusCode = 200
        /\ response.route = solution.route
        /\ response.total_distance = solution.distance
        /\ response.algorithm = request.algorithm
        /\ response.error = ""

\* the classical handler has answered 200 although the put failed
C23_Witness ==
    /\ pc = "done"
    /\ request.handler = "classical"
    /\ N >= 4
    /\ results = <<>>
    /\ calls = <<"brute_force_tsp", "put_item">>
    /\ response.statusCode = 200
    /\ ValidRoute(response.route, N)

\* the start city of the greedy call that has returned
GreedyStart ==
    IF request.function = "nearest_neighbor_tsp" THEN 0 ELSE request.start_city

\* the cities not yet in the first k entries of route
UnvisitedAfter(route, k) == (0 .. (N - 1)) \ {route[i] : i \in 1 .. k}

\* entry k+1 of route is an unvisited city nearest to entry k, and the
\* lowest index among the unvisited cities that near
NearestLowestIndex(cities, route, k) ==
    LET here == City(cities, route[k])
        next == route[k + 1]
    IN  /\ next \in UnvisitedAfter(route, k)
        /\ \A c \in UnvisitedAfter(route, k) :
              \/ calculate_distance(here, City(cities, next))
                    < calculate_distance(here, City(cities, c))
              \/ /\ calculate_distance(here, City(cities, next))
                       = calculate_distance(here, City(cities, c))
                 /\ next <= c

\* C24: in the route of the greedy constructor every city after the start
\* is an unvisited city at minimum distance from the city before it, the
\* lowest index among the equidistant ones, and after the n cities the
\* route returns to the start.
C24_GreedyTakesNearestLowestIndex ==
    (GreedyReturned /\ N >= 1) =>
        /\ Len(solution.route) = N + 1
        /\ solution.route[1] = GreedyStart
        /\ \A k \in 1 .. (N - 1) : NearestLowestIndex(request.cities, solution.route, k)
        /\ solution.route[N + 1] = GreedyStart
        /\ solution.distance = RouteDistance(request.cities, solution.route)

\* a greedy run from another start than 0 that had to break a tie between
\* two different unvisited cities
C24_Witness ==
    /\ GreedyReturned
    /\ N >= 4
    /\ request.start_city # 0
    /\ Len(solution.route) = N + 1
    /\ \E k \in 1 .. (N - 1) :
          \E c \in UnvisitedAfter(solution.route, k) :
              /\ c # solution.route[k + 1]
              /\ request.cities[c + 1] # request.cities[solution.route[k + 1] + 1]
              /\ calculate_distance(City(request.cities, solution.route[k]),
                                    City(request.cities, c))
                   = calculate_distance(City(request.cities, solution.route[k]),
                                        City(request.cities, solution.route[k + 1]))

\* route a comes before route b in the order of the enumeration
LexLess(a, b) ==
    \E i \in 1 .. Len(a) :
        /\ a[i] < b[i]
        /\ \A j \in 1 .. (i - 1) : a[j] = b[j]

\* C25: the tour of the exact solver starts at city 0, no tour from city 0
\* is shorter, and every other tour from city 0 of the same length comes
\* later in the lexicographic enumeration of the permutations.
C25_ExactKeepsFirstOfTies ==
    ExactRan =>
        /\ solution.route[1] = 0
        /\ \A t \in AnchoredTours(N) :
              LET d == RouteDistance(request.cities, t)
              IN  /\ ~FLess(d, solution.distance)
                  /\ d = solution.distance =>
                        t = solution.route \/ LexLess(solution.route, t)

\* the exact solver answered where another tour is exactly as short
C25_Witness ==
    /\ ExactRan
    /\ N >= 5
    /\ \E t \in AnchoredTours(N) :
          /\ t # solution.route
          /\ RouteDistance(request.cities, t) = solution.distance

\* the least element of a set of distances
MinOf(S) == CHOOSE d \in S : \A e \in S : d <= e

\* C26: the distance of the sampled constructor is the minimum of the greedy
\* distances over the set of sampled starts, whatever the order in which
\* the starts were drawn; the route is the greedy route of a start with
\* that distance.
C26_SampledDistanceIsSetMinimum ==
    sampled # {} =>
        LET least == MinOf({GreedyFrom(s).distance : s \in sampled})
        IN  /\ best_distance = least
            /\ best_solution.distance = least
            /\ \E s \in sampled : best_solution.route = GreedyFrom(s).route
            /\ (SamplerReturned /\ ~raised) => solution.distance = least

\* two sampled starts tie for the minimum with different routes, and the
\* one with the higher index was drawn first and won
C26_Witness ==
    /\ SamplerReturned
    /\ ~raised
    /\ \E a, b \in sampled :
          /\ a < b
          /\ GreedyFrom(a).distance = best_distance
          /\ GreedyFrom(b).distance = best_distance
          /\ GreedyFrom(a).route # GreedyFrom(b).route
          /\ solution = GreedyFrom(b)

\* C27: the quantum handler writes nothing for a request with fewer than 2
\* cities; for an accepted request the result is stored as the last step,
\* when the solution exists and the terminal status has been written.
C27_ResultStoredLast ==
    request.handler = "quantum" =>
        /\ N < 2 => experiments = <<>> /\ results = <<>>
        /\ pc # "done" => results = <<>>
        /\ results # <<>> =>
              /\ Len(results) = 1
              /\ solution # None
              /\ results[1].route = solution.route
              /\ Len(Statuses) >= 2
              /\ Statuses[Len(Statuses)] \in {"COMPLETED", "FAILED"}
              /\ calls[Len(calls)] = "store_result"
              /\ \A i \in 1 .. (Len(calls) - 1) : calls[i] # "store_result"
              /\ \E i \in 1 .. (Len(calls) - 1) :
                    calls[i] \in SampledSolvers \cup {"classical_fallback_tsp"}
              /\ \E i \in 2 .. (Len(calls) - 1) : calls[i] = "log_experiment"

\* the result of a run that fell back was stored after FAILED
C27_Witness ==
    /\ pc = "done"
    /\ request.handler = "quantum"
    /\ results # <<>>
    /\ raised
    /\ Statuses = <<"STARTED", "FAILED">>

\* C28: a failed write of an experiment status changes nothing: the status
\* code depends on the store of the result alone, route, distance and
\* algorithm are those the solver outcome gives, and after COMPLETED there is
\* no fallback, whether the put of COMPLETED succeeded or not.
C28_LogFailureSwallowed ==
    (Dispatched /\ pc \in {"package", "done"}) =>
        /\ (Len(Statuses) >= 2 /\ Statuses[2] = "COMPLETED") =>
              /\ ~raised
              /\ Len(Statuses) = 2
              /\ algorithm = experiments[1].algorithm
        /\ pc = "done" =>
              /\ response.statusCode = (IF results # <<>> THEN 200 ELSE 500)
              /\ response.statusCode = 200 =>
                    [algorithm |-> response.algorithm, route |-> response.route,
                     distance |-> response.total_distance]
                        = OutcomeWith(request.max_iterations)

\* the puts of STARTED and of COMPLETED both failed and the request was
\* answered with the sampled solution under its own algorithm
C28_Witness ==
    /\ pc = "done"
    /\ Dispatched
    /\ Statuses = <<"STARTED", "COMPLETED">>
    /\ ~experiments[1].ok /\ ~experiments[2].ok
    /\ response.statusCode = 200
    /\ response.algorithm = "vqe"
    /\ N >= 4

\* the dispatched solver raises: qaoa_tsp and vqe_tsp on None, vqe_tsp also
\* on max_iterations <= 10
SolverRaises ==
    /\ calls[2] \in SampledSolvers
    /\ \/ best_solution = None
       \/ calls[2] = "vqe_tsp" /\ request.max_iterations <= 10

\* C29: the terminal status is FAILED exactly when the dispatched solver
\* raised; then the result reports classical_fallback and no device, and
\* after COMPLETED it reports the algorithm that was logged with STARTED.
C29_FailedIffSolverRaised ==
    (Dispatched /\ pc \in {"package", "done"}) =>
        /\ Len(Statuses) = 2
        /\ Statuses[2] = "FAILED" <=> raised
        /\ raised <=> SolverRaises
        /\ algorithm = (IF Statuses[2] = "FAILED" THEN "classical_fallback"
                        ELSE experiments[1].algorithm)
        /\ response.statusCode = 200 =>
              /\ response.algorithm = algorithm
              /\ Statuses[2] = "FAILED" => response.device_arn = "None"

\* vqe_tsp raised after a trial had found a tour, and the answer reports the
\* fallback without a device
C29_Witness ==
    /\ pc = "done"
    /\ Dispatched
    /\ raised
    /\ best_solution # None
    /\ Statuses = <<"STARTED", "FAILED">>
    /\ experiments[1].algorithm = "vqe"
    /\ response.statusCode = 200
    /\ response.algorithm = "classical_fallback"
    /\ response.device_arn = "None"

\* C30: the greedy constructor returns for every city list and start city,
\* and its loop has run n-1 times: the route holds the start, then the n-1
\* other cities once each, then the start again.
C30_GreedyLoopRunsNMinusOneTimes ==
    /\ (/\ pc = "start"
        /\ request.function \in {"nearest_neighbor_tsp",
                                  "nearest_neighbor_tsp_from_start"}) =>
           ENABLED SolverNext
    /\ (GreedyReturned /\ N >= 1) =>
           /\ Len(solution.route) - 2 = N - 1
           /\ {solution.route[i] : i \in 2 .. (Len(solution.route) - 1)}
                 = (0 .. (N - 1)) \ {GreedyStart}

\* the greedy constructor has returned from a start other than 0 on a list
\* of the test suites
C30_Witness ==
    /\ GreedyReturned
    /\ N >= 6
    /\ request.start_city = N - 1
    /\ Len(solution.route) = N + 1

====
